---- MODULE Spec2Model ----
(***************************************************************************)
(* Grid BFS demos of the Pathfinding repository.                           *)
(*                                                                         *)
(* Four programs share one BFS engine over a random obstacle grid:         *)
(*   "vis"     src/bfs_visualization.py     incremental, one pop per frame *)
(*   "path"    src/pathfinding_with_bfs.py  full BFS to the goal per frame *)
(*   "oldvis"  src/BFS.py, lines 1-102      earlier incremental variant    *)
(*   "oldpath" src/BFS.py, lines 105-206    earlier goal-directed variant  *)
(* The variable app says which program a behaviour is a run of.            *)
(*                                                                         *)
(* Cells are pairs <<x, y>>; Python's None is the empty tuple, which is    *)
(* also the only falsy value a path_segment can take.  Python lists are    *)
(* sequences read through PyGet, which keeps negative-index wrap-around.   *)
(***************************************************************************)
EXTENDS Integers, Sequences, FiniteSets, TLC

VARIABLES app, columns, rows, tile_size, grid, graph,
          start, goal, queue, visited, cur_node,
          time, started, running,
          pc, popped, path

vars == <<app, columns, rows, tile_size, grid, graph,
          start, goal, queue, visited, cur_node,
          time, started, running,
          pc, popped, path>>

\* Bound of the model: a grid has at most MaxCells cells (columns * rows).
MaxCells == 6

None == <<>>

Apps == {"vis", "path", "oldvis", "oldpath"}

IncApps == {"vis", "oldvis"}

PathApps == {"path", "oldpath"}

-----------------------------------------------------------------------------
(* Python list indexing: list[i] with wrap-around for negative i; an index   *)
(* outside -len .. len-1 raises IndexError.                                  *)

PyInRange(s, i) == -Len(s) <= i /\ i < Len(s)

PyGet(s, i) == IF i >= 0 THEN s[i + 1] ELSE s[Len(s) + i + 1]

\* self.grid[y][x]: TRUE when the two subscripts raise no IndexError.
GridIndexOk(x, y) == PyInRange(grid, y) /\ PyInRange(PyGet(grid, y), x)

GridAt(x, y) == PyGet(PyGet(grid, y), x)

-----------------------------------------------------------------------------
(* Adjacency index                                                           *)

\* Mutant: the first two directions are swapped.
ways_swapped == << <<0, -1>>, <<-1, 0>>, <<1, 0>>, <<0, 1>> >>

ways == << <<-1, 0>>, <<0, -1>>, <<1, 0>>, <<0, 1>> >>

\* Mutant: the lower bounds 0 <= x and 0 <= y are not tested.
check_next_node_no_lower_bound(x, y) ==
    /\ x < columns
    /\ y < rows
    /\ GridAt(x, y) = 0

\* Mutant: the wall test of check_next_node is dropped.
check_next_node_ignores_walls(x, y) ==
    /\ 0 <= x /\ x < columns
    /\ 0 <= y /\ y < rows

check_next_node(x, y) ==
    /\ 0 <= x /\ x < columns
    /\ 0 <= y /\ y < rows
    /\ GridAt(x, y) = 0

get_next_nodes(x, y) ==
    LET cand == [i \in 1..Len(ways) |-> <<x + ways[i][1], y + ways[i][2]>>]
    IN  SelectSeq(cand, LAMBDA c : check_next_node(c[1], c[2]))

\* for y, row in enumerate(grid): for x, col in enumerate(row):
\*     if not col: graph[(x, y)] = get_next_nodes(x, y)
build_graph ==
    LET free == {c \in (0..(columns - 1)) \X (0..(rows - 1)) :
                     grid[c[2] + 1][c[1] + 1] = 0}
    IN  [c \in free |-> get_next_nodes(c[1], c[2])]

\* self.graph.get(node, [])
graph_get(node) == IF node \in DOMAIN graph THEN graph[node] ELSE <<>>

-----------------------------------------------------------------------------
(* BFS engine                                                                *)

\* Mutant: pop() from the right end instead of popleft().
popleft_takes_last(q) == [node |-> q[Len(q)], rest |-> SubSeq(q, 1, Len(q) - 1)]

\* deque.popleft(): the element removed and the deque that remains.
popleft(q) == [node |-> Head(q), rest |-> Tail(q)]

\* Mutant: the parent recorded for a discovered cell is the start cell.
RECURSIVE expand_parent_is_start(_, _, _, _)
expand_parent_is_start(q, v, cur, next_nodes) ==
    IF next_nodes = <<>>
    THEN [queue |-> q, visited |-> v]
    ELSE LET next_node == Head(next_nodes)
         IN  IF next_node \notin DOMAIN v
             THEN expand_parent_is_start(Append(q, next_node),
                                         (next_node :> start) @@ v,
                                         cur, Tail(next_nodes))
             ELSE expand_parent_is_start(q, v, cur, Tail(next_nodes))

\* Mutant: a discovered cell is put at the front of the deque (appendleft).
RECURSIVE expand_appendleft(_, _, _, _)
expand_appendleft(q, v, cur, next_nodes) ==
    IF next_nodes = <<>>
    THEN [queue |-> q, visited |-> v]
    ELSE LET next_node == Head(next_nodes)
         IN  IF next_node \notin DOMAIN v
             THEN expand_appendleft(<<next_node>> \o q, (next_node :> cur) @@ v,
                                    cur, Tail(next_nodes))
             ELSE expand_appendleft(q, v, cur, Tail(next_nodes))

\* for next_node in next_nodes: if next_node not in visited: append, set parent
RECURSIVE expand(_, _, _, _)
expand(q, v, cur, next_nodes) ==
    IF next_nodes = <<>>
    THEN [queue |-> q, visited |-> v]
    ELSE LET next_node == Head(next_nodes)
         IN  IF next_node \notin DOMAIN v
             THEN expand(Append(q, next_node), (next_node :> cur) @@ v,
                         cur, Tail(next_nodes))
             ELSE expand(q, v, cur, Tail(next_nodes))

\* Mutant: the walk stops at the cell whose parent is None, leaving it out.
RECURSIVE path_walk_drops_root(_, _)
path_walk_drops_root(v, path_segment) ==
    IF path_segment # None /\ path_segment \in DOMAIN v /\ v[path_segment] # None
    THEN <<path_segment>> \o path_walk_drops_root(v, v[path_segment])
    ELSE <<>>

\* The path drawn each frame: while path_segment and path_segment in visited.
RECURSIVE path_walk(_, _)
path_walk(v, path_segment) ==
    IF path_segment # None /\ path_segment \in DOMAIN v
    THEN <<path_segment>> \o path_walk(v, v[path_segment])
    ELSE <<>>

\* BFS.py, first program: while path_segment: ... visited[path_segment]
\* (no membership test; a missing key raises KeyError).
RECURSIVE old_path_walk(_, _)
old_path_walk(v, path_segment) ==
    IF path_segment = None
    THEN [ok |-> TRUE, path |-> <<>>]
    ELSE IF path_segment \notin DOMAIN v
         THEN [ok |-> FALSE, path |-> <<>>]
         ELSE LET r == old_path_walk(v, v[path_segment])
              IN  [ok |-> r.ok, path |-> <<path_segment>> \o r.path]

\* The while loop of __bfs: pop, stop at the goal, else expand.
RECURSIVE bfs_loop(_, _, _, _)
bfs_loop(q, v, pops, g) ==
    IF q = <<>>
    THEN [queue |-> q, visited |-> v, popped |-> pops, ok |-> TRUE]
    ELSE LET p == popleft(q)
         IN  IF p.node = g
             THEN [queue |-> p.rest, visited |-> v,
                   popped |-> Append(pops, p.node), ok |-> TRUE]
             ELSE LET e == expand(p.rest, v, p.node, graph_get(p.node))
                  IN  bfs_loop(e.queue, e.visited, Append(pops, p.node), g)

\* Mutant: the loop never breaks at the goal.
bfs_never_breaks(s, g) == bfs_loop(<<s>>, (s :> None), <<>>, None)

\* Mutant: Frontier and Visited are not reinitialised, the search resumes from
\* what the previous call left.
bfs_resumes(s, g) == bfs_loop(queue, visited, <<>>, g)

\* Mutant: the start cell is put into Frontier twice.
bfs_seeds_twice(s, g) == bfs_loop(<<s, s>>, (s :> None), <<>>, g)

\* App.__bfs of pathfinding_with_bfs.py
bfs(s, g) == bfs_loop(<<s>>, (s :> None), <<>>, g)

\* The while loop of bfs in BFS.py, second program: self.graph[cur_node]
\* raises KeyError for a node that has no adjacency list.
RECURSIVE old_bfs_loop(_, _, _, _)
old_bfs_loop(q, v, pops, g) ==
    IF q = <<>>
    THEN [queue |-> q, visited |-> v, popped |-> pops, ok |-> TRUE]
    ELSE LET p == popleft(q)
         IN  IF p.node = g
             THEN [queue |-> p.rest, visited |-> v,
                   popped |-> Append(pops, p.node), ok |-> TRUE]
             ELSE IF p.node \notin DOMAIN graph
                  THEN [queue |-> p.rest, visited |-> v,
                        popped |-> Append(pops, p.node), ok |-> FALSE]
                  ELSE LET e == expand(p.rest, v, p.node, graph[p.node])
                       IN  old_bfs_loop(e.queue, e.visited,
                                        Append(pops, p.node), g)

old_bfs(s, g) == old_bfs_loop(<<s>>, (s :> None), <<>>, g)

-----------------------------------------------------------------------------
(* Input: mouse positions in pixels                                          *)

\* self.time, self.delay = 0, 1
delay == 1

\* Tile size in pixels of each program (constructor default or literal).
TileSize(a) == CASE a = "vis"     -> 15
                 [] a = "path"    -> 15
                 [] a = "oldvis"  -> 15
                 [] a = "oldpath" -> 30

\* event.button: 1 is the left button, 3 the right button.
Buttons == {1, 3}

\* The last pixel of tile i (tile -1 lies left of / above the window).
Pixel(i) == i * tile_size + tile_size - 1

\* Mouse positions handed to the program: one per tile of the window, and one
\* beyond each of its four edges.
MousePositions ==
    {<<Pixel(x), Pixel(y)>> : x \in 0..(columns - 1), y \in 0..(rows - 1)}
    \cup {<<Pixel(-1), Pixel(0)>>, <<Pixel(columns), Pixel(0)>>,
          <<Pixel(0), Pixel(-1)>>, <<Pixel(0), Pixel(rows)>>}

\* floor(x / tile_size), floor(y / tile_size)
get_cords(pos) == <<pos[1] \div tile_size, pos[2] \div tile_size>>

\* x // tile_size, y // tile_size of pg.mouse.get_pos()
get_click_mouse_pos(pos) == <<pos[1] \div tile_size, pos[2] \div tile_size>>

-----------------------------------------------------------------------------
(* Initial state: App.__init__                                               *)

\* Positions of App.run: "init" before the first frame, "frame" when the BFS
\* logic and the path drawing of a frame are done, "event" when an event of
\* the frame has been handled.  An uncaught exception ends the loop at one of
\* the positions of Failed.
Looping == {"init", "frame", "event"}

Failed == {"IndexError_grid", "KeyError_graph", "KeyError_visited"}

Init ==
    /\ app \in Apps
    /\ columns \in 1..MaxCells
    /\ rows \in 1..MaxCells
    /\ columns * rows <= MaxCells
    /\ tile_size = TileSize(app)
    /\ grid \in [1..rows -> [1..columns -> {0, 1}]]
    /\ graph = build_graph
    /\ start = IF app \in IncApps THEN <<-1, -1>> ELSE <<0, 0>>
    /\ goal = IF app \in IncApps THEN None ELSE start
    /\ queue = <<start>>
    /\ visited = (start :> None)
    /\ cur_node = IF app \in IncApps THEN start ELSE None
    /\ time = 0
    /\ started = FALSE
    /\ running = TRUE
    /\ pc = "init"
    /\ popped = <<>>
    /\ path = <<>>

Fixed == <<app, columns, rows, tile_size, grid, graph>>

-----------------------------------------------------------------------------
(* bfs_visualization.py                                                      *)

\* One BFS step: popleft, then expand the adjacency list of the popped node.
step(q, v) ==
    LET p == popleft(q)
        e == expand(p.rest, v, p.node, graph_get(p.node))
    IN  [cur_node |-> p.node, queue |-> e.queue, visited |-> e.visited]

\* Mutant: the gate of the BFS step tests the frame counter against a value
\* it never takes.
Vis_Frame_gate_off ==
    /\ app = "vis"
    /\ pc \in Looping
    /\ IF time % delay # 0 /\ started /\ running /\ queue # <<>>
       THEN LET r == step(queue, visited)
            IN  /\ cur_node' = r.cur_node
                /\ queue' = r.queue
                /\ visited' = r.visited
                /\ popped' = Append(popped, r.cur_node)
       ELSE UNCHANGED <<cur_node, queue, visited, popped>>
    /\ path' = path_walk(visited', cur_node')
    /\ time' = (time + 1) % delay
    /\ pc' = "frame"
    /\ UNCHANGED <<Fixed, start, goal, started, running>>

\* Mutant: the BFS step is not gated by the running flag.
Vis_Frame_ignores_running ==
    /\ app = "vis"
    /\ pc \in Looping
    /\ IF time % delay = 0 /\ started /\ queue # <<>>
       THEN LET r == step(queue, visited)
            IN  /\ cur_node' = r.cur_node
                /\ queue' = r.queue
                /\ visited' = r.visited
                /\ popped' = Append(popped, r.cur_node)
       ELSE UNCHANGED <<cur_node, queue, visited, popped>>
    /\ path' = path_walk(visited', cur_node')
    /\ time' = (time + 1) % delay
    /\ pc' = "frame"
    /\ UNCHANGED <<Fixed, start, goal, started, running>>

\* One iteration of App.run up to the event loop: BFS logic, path drawing,
\* and the frame's time += 1.
Vis_Frame ==
    /\ app = "vis"
    /\ pc \in Looping
    /\ IF time % delay = 0 /\ started /\ running /\ queue # <<>>
       THEN LET r == step(queue, visited)
            IN  /\ cur_node' = r.cur_node
                /\ queue' = r.queue
                /\ visited' = r.visited
                /\ popped' = Append(popped, r.cur_node)
       ELSE UNCHANGED <<cur_node, queue, visited, popped>>
    /\ path' = path_walk(visited', cur_node')
    /\ time' = (time + 1) % delay
    /\ pc' = "frame"
    /\ UNCHANGED <<Fixed, start, goal, started, running>>

\* Mutant: the reset forgets to record the clicked cell as the start.
reset_keeps_start(c) ==
    /\ start' = start
    /\ cur_node' = c
    /\ queue' = <<c>>
    /\ visited' = (c :> None)
    /\ started' = TRUE
    /\ popped' = <<>>

\* Mutant: the reset leaves CurrentHead at the cell it was.
reset_keeps_cur_node(c) ==
    /\ start' = c
    /\ cur_node' = cur_node
    /\ queue' = <<c>>
    /\ visited' = (c :> None)
    /\ started' = TRUE
    /\ popped' = <<>>

\* Mutant: the reset puts the clicked cell into Frontier twice.
reset_seeds_twice(c) ==
    /\ start' = c
    /\ cur_node' = c
    /\ queue' = <<c, c>>
    /\ visited' = (c :> None)
    /\ started' = TRUE
    /\ popped' = <<>>

\* The accepted left click: a new traversal from cell c.
reset(c) ==
    /\ start' = c
    /\ cur_node' = c
    /\ queue' = <<c>>
    /\ visited' = (c :> None)
    /\ started' = TRUE
    /\ popped' = <<>>

\* Mutant: the left click is accepted whether or not a traversal has started.
Vis_MouseButtonDown_any_time(button, pos) ==
    /\ app = "vis"
    /\ pc \in Looping
    /\ pc' = "event"
    /\ IF button = 1
       THEN LET c == get_cords(pos)
            IN  IF c \in DOMAIN graph
                THEN reset(c) /\ UNCHANGED running
                ELSE UNCHANGED <<start, cur_node, queue, visited, started,
                                 popped, running>>
       ELSE IF started /\ button = 3
            THEN /\ running' = ~running
                 /\ UNCHANGED <<start, cur_node, queue, visited, started, popped>>
            ELSE UNCHANGED <<start, cur_node, queue, visited, started,
                             popped, running>>
    /\ UNCHANGED <<Fixed, goal, time, path>>

Vis_MouseButtonDown(button, pos) ==
    /\ app = "vis"
    /\ pc \in Looping
    /\ pc' = "event"
    /\ IF ~started /\ button = 1
       THEN LET c == get_cords(pos)
            IN  IF c \in DOMAIN graph
                THEN reset(c) /\ UNCHANGED running
                ELSE UNCHANGED <<start, cur_node, queue, visited, started,
                                 popped, running>>
       ELSE IF started /\ button = 3
            THEN /\ running' = ~running
                 /\ UNCHANGED <<start, cur_node, queue, visited, started, popped>>
            ELSE UNCHANGED <<start, cur_node, queue, visited, started,
                             popped, running>>
    /\ UNCHANGED <<Fixed, goal, time, path>>

-----------------------------------------------------------------------------
(* pathfinding_with_bfs.py                                                   *)

\* One iteration of App.run up to the event loop: __bfs, then path drawing.
Path_Frame ==
    /\ app = "path"
    /\ pc \in Looping
    /\ LET r == bfs(start, goal)
       IN  /\ queue' = r.queue
           /\ visited' = r.visited
           /\ popped' = r.popped
    /\ path' = path_walk(visited', goal)
    /\ pc' = "frame"
    /\ UNCHANGED <<Fixed, start, goal, cur_node, time, started, running>>

\* try: if not grid[y][x]: ... except IndexError: pass
Path_MouseButtonDown(button, pos) ==
    /\ app = "path"
    /\ pc \in Looping
    /\ pc' = "event"
    /\ LET c == get_click_mouse_pos(pos)
       IN  IF GridIndexOk(c[1], c[2]) /\ GridAt(c[1], c[2]) = 0
           THEN IF button = 1
                THEN goal' = c /\ UNCHANGED start
                ELSE IF button = 3
                     THEN start' = c /\ UNCHANGED goal
                     ELSE UNCHANGED <<start, goal>>
           ELSE UNCHANGED <<start, goal>>
    /\ UNCHANGED <<Fixed, queue, visited, cur_node, time, started, running,
                   popped, path>>

-----------------------------------------------------------------------------
(* BFS.py, first program (lines 1-102)                                       *)

OldVis_Frame ==
    /\ app = "oldvis"
    /\ pc \in Looping
    /\ IF time % delay = 0 /\ started /\ running /\ queue # <<>>
       THEN LET p == popleft(queue)
            IN  IF p.node \notin DOMAIN graph
                THEN \* self.graph[self.cur_node] raises KeyError
                     /\ cur_node' = p.node
                     /\ queue' = p.rest
                     /\ pc' = "KeyError_graph"
                     /\ UNCHANGED <<visited, popped, path, time>>
                ELSE LET e == expand(p.rest, visited, p.node, graph[p.node])
                         w == old_path_walk(e.visited, p.node)
                     IN  /\ cur_node' = p.node
                         /\ queue' = e.queue
                         /\ visited' = e.visited
                         /\ popped' = Append(popped, p.node)
                         /\ IF w.ok
                            THEN /\ path' = w.path
                                 /\ time' = (time + 1) % delay
                                 /\ pc' = "frame"
                            ELSE /\ pc' = "KeyError_visited"
                                 /\ UNCHANGED <<path, time>>
       ELSE LET w == old_path_walk(visited, cur_node)
            IN  /\ UNCHANGED <<cur_node, queue, visited, popped>>
                /\ IF w.ok
                   THEN /\ path' = w.path
                        /\ time' = (time + 1) % delay
                        /\ pc' = "frame"
                   ELSE /\ pc' = "KeyError_visited"
                        /\ UNCHANGED <<path, time>>
    /\ UNCHANGED <<Fixed, start, goal, started, running>>

OldVis_MouseButtonDown(button, pos) ==
    /\ app = "oldvis"
    /\ pc \in Looping
    /\ IF ~started /\ button = 1
       THEN LET c == get_cords(pos)
            IN  IF ~GridIndexOk(c[1], c[2])
                THEN \* self.grid[y][x] raises IndexError
                     /\ pc' = "IndexError_grid"
                     /\ UNCHANGED <<start, cur_node, queue, visited, started,
                                    popped, running>>
                ELSE IF GridAt(c[1], c[2]) = 0
                     THEN reset(c) /\ pc' = "event" /\ UNCHANGED running
                     ELSE /\ pc' = "event"
                          /\ UNCHANGED <<start, cur_node, queue, visited,
                                         started, popped, running>>
       ELSE IF started /\ button = 3
            THEN /\ running' = ~running
                 /\ pc' = "event"
                 /\ UNCHANGED <<start, cur_node, queue, visited, started, popped>>
            ELSE /\ pc' = "event"
                 /\ UNCHANGED <<start, cur_node, queue, visited, started,
                                popped, running>>
    /\ UNCHANGED <<Fixed, goal, time, path>>

-----------------------------------------------------------------------------
(* BFS.py, second program (lines 105-206)                                    *)

OldPath_Frame ==
    /\ app = "oldpath"
    /\ pc \in Looping
    /\ LET r == old_bfs(start, goal)
       IN  /\ queue' = r.queue
           /\ visited' = r.visited
           /\ popped' = r.popped
           /\ IF r.ok
              THEN /\ path' = path_walk(r.visited, goal)
                   /\ pc' = "frame"
              ELSE /\ pc' = "KeyError_graph"
                   /\ UNCHANGED path
    /\ UNCHANGED <<Fixed, start, goal, cur_node, time, started, running>>

\* if mouse_pos and not self.grid[mouse_pos[1]][mouse_pos[0]]: no try/except
OldPath_MouseButtonDown(button, pos) ==
    /\ app = "oldpath"
    /\ pc \in Looping
    /\ LET c == get_click_mouse_pos(pos)
       IN  IF button \notin {1, 3}
           THEN pc' = "event" /\ UNCHANGED <<start, goal>>
           ELSE IF ~GridIndexOk(c[1], c[2])
                THEN pc' = "IndexError_grid" /\ UNCHANGED <<start, goal>>
                ELSE /\ pc' = "event"
                     /\ IF GridAt(c[1], c[2]) = 0
                        THEN IF button = 1
                             THEN goal' = c /\ UNCHANGED start
                             ELSE start' = c /\ UNCHANGED goal
                        ELSE UNCHANGED <<start, goal>>
    /\ UNCHANGED <<Fixed, queue, visited, cur_node, time, started, running,
                   popped, path>>

-----------------------------------------------------------------------------

NextInc ==
    \/ Vis_Frame
    \/ \E button \in Buttons, pos \in MousePositions :
           Vis_MouseButtonDown(button, pos)
    \/ OldVis_Frame
    \/ \E button \in Buttons, pos \in MousePositions :
           OldVis_MouseButtonDown(button, pos)

NextPath ==
    \/ Path_Frame
    \/ \E button \in Buttons, pos \in MousePositions :
           Path_MouseButtonDown(button, pos)

NextOldPath ==
    \/ OldPath_Frame
    \/ \E button \in Buttons, pos \in MousePositions :
           OldPath_MouseButtonDown(button, pos)

NextBoth ==
    \/ Vis_Frame
    \/ \E button \in Buttons, pos \in MousePositions :
           Vis_MouseButtonDown(button, pos)
    \/ OldVis_Frame
    \/ \E button \in Buttons, pos \in MousePositions :
           OldVis_MouseButtonDown(button, pos)
    \/ Path_Frame
    \/ \E button \in Buttons, pos \in MousePositions :
           Path_MouseButtonDown(button, pos)

Next ==
    \/ Vis_Frame
    \/ \E button \in Buttons, pos \in MousePositions :
           Vis_MouseButtonDown(button, pos)
    \/ Path_Frame
    \/ \E button \in Buttons, pos \in MousePositions :
           Path_MouseButtonDown(button, pos)
    \/ OldVis_Frame
    \/ \E button \in Buttons, pos \in MousePositions :
           OldVis_MouseButtonDown(button, pos)
    \/ OldPath_Frame
    \/ \E button \in Buttons, pos \in MousePositions :
           OldPath_MouseButtonDown(button, pos)

\* All four programs.
Spec == Init /\ [][Next]_vars

\* The two incremental programs (bfs_visualization.py and BFS.py, first program).
InitInc == Init /\ app \in IncApps

SpecInc == InitInc /\ [][NextInc]_vars

\* pathfinding_with_bfs.py alone.
InitPath == Init /\ app = "path"

SpecPath == InitPath /\ [][NextPath]_vars

\* BFS.py, second program, alone.
InitOldPath == Init /\ app = "oldpath"

SpecOldPath == InitOldPath /\ [][NextOldPath]_vars

\* Both modes: the incremental programs and pathfinding_with_bfs.py.
InitBoth == Init /\ app \in {"vis", "oldvis", "path"}

SpecBoth == InitBoth /\ [][NextBoth]_vars

\* The incremental programs with the scheduling of App.run: the loop
\* "while True" never stops taking frames while the program has not failed.
SpecIncLive ==
    InitInc /\ [][NextInc]_vars /\ WF_vars(Vis_Frame) /\ WF_vars(OldVis_Frame)

\* One program per mode: bfs_visualization.py and pathfinding_with_bfs.py.
NextModes ==
    \/ Vis_Frame
    \/ \E button \in Buttons, pos \in MousePositions :
           Vis_MouseButtonDown(button, pos)
    \/ Path_Frame
    \/ \E button \in Buttons, pos \in MousePositions :
           Path_MouseButtonDown(button, pos)

InitModes == Init /\ app \in {"vis", "path"}

SpecModes == InitModes /\ [][NextModes]_vars

\* bfs_visualization.py alone.
NextVis ==
    \/ Vis_Frame
    \/ \E button \in Buttons, pos \in MousePositions :
           Vis_MouseButtonDown(button, pos)

\* App(columns=3, rows=3) of bfs_visualization.py when the random grid came
\* out without a wall.
InitScenario ==
    /\ app = "vis"
    /\ columns = 3
    /\ rows = 3
    /\ tile_size = TileSize(app)
    /\ grid = [y \in 1..rows |-> [x \in 1..columns |-> 0]]
    /\ graph = build_graph
    /\ start = <<-1, -1>>
    /\ goal = None
    /\ queue = <<start>>
    /\ visited = (start :> None)
    /\ cur_node = start
    /\ time = 0
    /\ started = FALSE
    /\ running = TRUE
    /\ pc = "init"
    /\ popped = <<>>
    /\ path = <<>>

SpecScenario == InitScenario /\ [][NextVis]_vars

-----------------------------------------------------------------------------
(* Reference notions on the grid, independent of the adjacency index         *)

Cells == (0..(columns - 1)) \X (0..(rows - 1))

FreeCells == {c \in Cells : grid[c[2] + 1][c[1] + 1] = 0}

Abs(n) == IF n < 0 THEN -n ELSE n

Manhattan(a, b) == Abs(a[1] - b[1]) + Abs(a[2] - b[2])

Adjacent(a, b) == Manhattan(a, b) = 1

\* The layers of cells at distance 0, 1, 2, ... from the first layer, through
\* free orthogonal neighbours.
RECURSIVE LayersFrom(_, _)
LayersFrom(seen, layer) ==
    IF layer = {}
    THEN <<>>
    ELSE LET next == {c \in FreeCells \ seen : \E u \in layer : Adjacent(u, c)}
         IN  <<layer>> \o LayersFrom(seen \cup next, next)

Layers(s) == LayersFrom({s}, {s})

ReachOf(L) == UNION {L[i] : i \in DOMAIN L}

\* Cells reachable from s through free orthogonal neighbours.
Reach(s) == ReachOf(Layers(s))

\* Shortest-path distance of c in the layering L.
DistIn(L, c) == (CHOOSE i \in DOMAIN L : c \in L[i]) - 1

\* The cell n parent pointers up from c, None when the chain is shorter.
RECURSIVE Ancestor(_, _, _)
Ancestor(v, c, n) ==
    IF n = 0
    THEN c
    ELSE IF c \in DOMAIN v /\ v[c] # None
         THEN Ancestor(v, v[c], n - 1)
         ELSE None

Range(s) == {s[i] : i \in DOMAIN s}

IndexOf(s, e) == CHOOSE i \in DOMAIN s : s[i] = e

-----------------------------------------------------------------------------
(* Claims                                                                    *)

\* C1: incremental mode, traversal complete (Frontier empty) from a free
\* start: every free cell reachable from start is a key of Visited, and the
\* parent chain from it reaches start in exactly its shortest-path distance.
C1_CompleteShortestPaths ==
    (app \in IncApps /\ started /\ start \in FreeCells /\ queue = <<>>)
    => LET L == Layers(start)
       IN  \A c \in ReachOf(L) :
               /\ c \in DOMAIN visited
               /\ Ancestor(visited, c, DistIn(L, c)) = start

\* C1 witness: a completed traversal that reached a cell by a detour around
\* walls (shortest path longer than the Manhattan distance).
C1_Witness ==
    /\ app \in IncApps /\ started /\ start \in FreeCells /\ queue = <<>>
    /\ LET L == Layers(start)
       IN  \E c \in DOMAIN visited :
               /\ c \in ReachOf(L)
               /\ DistIn(L, c) > Manhattan(start, c)
               /\ Ancestor(visited, c, DistIn(L, c)) = start

\* C2: from a free start, a cell that free orthogonal moves cannot reach is
\* never a key of Visited: in every state of an incremental traversal, and
\* when the goal-directed BFS has returned.
C2_UnreachableNeverVisited ==
    (/\ start \in FreeCells
     /\ \/ app \in IncApps /\ started
        \/ app \in PathApps /\ pc = "frame")
    => \A c \in DOMAIN visited : c \in Reach(start)

\* C2 witness: a finished traversal on a grid where some free cell is walled
\* off from start and some other cell was visited.
C2_Witness ==
    /\ start \in FreeCells
    /\ queue = <<>>
    /\ \/ app \in IncApps /\ started
       \/ app \in PathApps /\ pc = "frame"
    /\ Cardinality(DOMAIN visited) > 1
    /\ \E c \in FreeCells : c \notin Reach(start) /\ c \notin DOMAIN visited

\* The neighbour priority as the claim states it: (x-1,y), (x,y-1), (x+1,y),
\* (x,y+1).
ClaimPriority == << <<-1, 0>>, <<0, -1>>, <<1, 0>>, <<0, 1>> >>

\* The rank of cell c among the neighbours of u, 0 when c is no neighbour.
PriorityOf(u, c) ==
    IF \E i \in 1..4 : c = <<u[1] + ClaimPriority[i][1], u[2] + ClaimPriority[i][2]>>
    THEN CHOOSE i \in 1..4 :
             c = <<u[1] + ClaimPriority[i][1], u[2] + ClaimPriority[i][2]>>
    ELSE 0

\* Index in the dequeue order s of the first dequeued neighbour of c, 0 when
\* there is none.
FirstNeighbourIndex(s, c) ==
    IF \E k \in DOMAIN s : Adjacent(s[k], c)
    THEN CHOOSE k \in DOMAIN s :
             Adjacent(s[k], c) /\ \A m \in 1..(k - 1) : ~Adjacent(s[m], c)
    ELSE 0

\* a is dequeued before b according to the neighbour priority: its first
\* dequeued neighbour comes earlier, or is the same and ranks a before b.
PriorityBefore(s, a, b) ==
    LET ka == FirstNeighbourIndex(s, a)
        kb == FirstNeighbourIndex(s, b)
    IN  /\ ka > 0 /\ kb > 0
        /\ \/ ka < kb
           \/ ka = kb /\ PriorityOf(s[ka], a) < PriorityOf(s[kb], b)

C4_SolveStopsAtGoal ==
    (app \in PathApps /\ pc = "frame" /\ start \in FreeCells /\ goal \in FreeCells)
    => LET L == Layers(start)
           n == Len(popped)
           before == {popped[i] : i \in 1..(n - 1)}
       IN  IF goal \in ReachOf(L)
           THEN /\ n > 0
                /\ popped[n] = goal
                /\ goal \notin before
                /\ goal \in DOMAIN visited
                /\ IF goal = start
                   THEN visited[goal] = None
                   ELSE visited[goal] \in before /\ Adjacent(visited[goal], goal)
                /\ Ancestor(visited, goal, DistIn(L, goal)) = start
                /\ \A c \in DOMAIN visited : visited[c] = None \/ visited[c] \in before
                /\ DOMAIN visited = Range(popped) \cup Range(queue)
           ELSE /\ queue = <<>>
                /\ goal \notin DOMAIN visited
                /\ Range(popped) = ReachOf(L)

\* C4 witness: the BFS returned at a goal two or more steps from start while
\* cells were still waiting in Frontier.
C4_Witness ==
    /\ app \in PathApps /\ pc = "frame"
    /\ start \in FreeCells /\ goal \in FreeCells
    /\ goal \in Reach(start)
    /\ Manhattan(start, goal) >= 2
    /\ queue # <<>>
    /\ popped[Len(popped)] = goal

\* The cell whose path each program draws: cur_node, or goal.
Target == IF app \in IncApps THEN cur_node ELSE goal

\* C5: the path drawn in a frame.  The walk never fails on a missing key; for
\* a target that is no key of Visited it is empty; for a key it starts at the
\* target, each next cell is the parent of the one before, and it ends at the
\* start cell, whose parent is None.
C5_PathReconstruction ==
    /\ pc # "KeyError_visited"
    /\ pc = "frame"
       => IF Target \notin DOMAIN visited
          THEN path = <<>>
          ELSE /\ path # <<>>
               /\ path[1] = Target
               /\ \A i \in 1..(Len(path) - 1) : visited[path[i]] = path[i + 1]
               /\ path[Len(path)] = start
               /\ visited[path[Len(path)]] = None

\* C5 witness: a frame drew the empty path because the goal is no key of
\* Visited although other cells are.
C5_Witness ==
    /\ pc = "frame"
    /\ Target \notin DOMAIN visited
    /\ Cardinality(DOMAIN visited) > 1
    /\ path = <<>>

\* The reverse of a sequence.
Reverse(s) == [i \in 1..Len(s) |-> s[Len(s) + 1 - i]]

\* C6: in a traversal (incremental mode once started; goal-directed mode on
\* return of the BFS), for every key c of Visited the reconstructed path
\* reversed starts at start, ends at c, steps only along Adjacency Index
\* edges, and has as many steps as the breadth-first depth of c.
C6_ReversedPathIsWalk ==
    (\/ app \in IncApps /\ started /\ pc \in Looping
     \/ app \in PathApps /\ pc = "frame")
    => \A c \in DOMAIN visited :
           LET w == Reverse(path_walk(visited, c))
           IN  /\ w # <<>>
               /\ w[1] = start
               /\ w[Len(w)] = c
               /\ \A i \in 1..(Len(w) - 1) :
                      /\ w[i] \in DOMAIN graph
                      /\ w[i + 1] \in Range(graph[w[i]])
               /\ start \in FreeCells => Len(w) - 1 = DistIn(Layers(start), c)

\* C6 witness: a visited cell three or more steps from start.
C6_Witness ==
    /\ \/ app \in IncApps /\ started /\ pc \in Looping
       \/ app \in PathApps /\ pc = "frame"
    /\ \E c \in DOMAIN visited :
           /\ Len(path_walk(visited, c)) >= 4
           /\ path_walk(visited, c)[1] = c

\* The four neighbour candidates of c in the order the claim gives.
Candidates(c) ==
    [i \in 1..4 |-> <<c[1] + ClaimPriority[i][1], c[2] + ClaimPriority[i][2]>>]

MouseButtonDown(button, pos) ==
    \/ Vis_MouseButtonDown(button, pos)
    \/ Path_MouseButtonDown(button, pos)
    \/ OldVis_MouseButtonDown(button, pos)
    \/ OldPath_MouseButtonDown(button, pos)

\* C8: a click on a wall cell or on a cell outside the grid is ignored: Start
\* and Goal keep their values, and in incremental mode so do Frontier,
\* Visited, CurrentHead and the started flag.
C8_InvalidClickIgnored ==
    [][\A button \in Buttons, pos \in MousePositions :
           (get_cords(pos) \notin FreeCells /\ MouseButtonDown(button, pos))
           => /\ UNCHANGED <<start, goal>>
              /\ app \in IncApps => UNCHANGED <<queue, visited, cur_node, started>>
      ]_vars

\* C9: no program ever stops on an uncaught exception: no lookup of a cell
\* missing from the Adjacency Index or from Visited, no click that ends the
\* loop.
C9_NeverFails == pc \notin Failed

\* C10 as stated: a left click on a free cell c resets the traversal at any
\* time: Frontier = [c], Visited = {c: none}, CurrentHead = c.
C10_SetStartAlwaysResets ==
    [][\A pos \in MousePositions :
           (get_cords(pos) \in FreeCells /\ MouseButtonDown(1, pos))
           => LET c == get_cords(pos)
              IN  /\ queue' = <<c>>
                  /\ visited' = (c :> None)
                  /\ cur_node' = c
      ]_vars

\* C10 amended: a left click on a free cell c resets the traversal (Start = c,
\* Frontier = [c], Visited = {c: none}, CurrentHead = c, started set) only
\* while no traversal has been started; once started is set the click leaves
\* Start, Frontier, Visited and CurrentHead as they are.
C10_SetStartResetsOnlyBeforeStart ==
    [][\A pos \in MousePositions :
           (get_cords(pos) \in FreeCells /\ MouseButtonDown(1, pos))
           => LET c == get_cords(pos)
              IN  IF ~started
                  THEN /\ start' = c
                       /\ queue' = <<c>>
                       /\ visited' = (c :> None)
                       /\ cur_node' = c
                       /\ started'
                  ELSE UNCHANGED <<start, queue, visited, cur_node, started>>
      ]_vars

\* C10 witness: a click has just started a traversal from a free cell.
C10_Witness ==
    /\ app \in IncApps
    /\ pc = "event"
    /\ started
    /\ start \in FreeCells
    /\ queue = <<start>>
    /\ visited = (start :> None)
    /\ cur_node = start
    /\ popped = <<>>

\* The result of a solve that starts from a one-cell Frontier and a one-entry
\* Visited, whatever the program holds.
FreshSolve(s, g) == bfs_loop(<<s>>, (s :> None), <<>>, g)

Scenario ==
    /\ app \in IncApps
    /\ columns = 3 /\ rows = 3
    /\ FreeCells = Cells
    /\ started
    /\ start = <<0, 0>>

\* The cells dequeued so far come in layer order: their distance from start
\* never decreases.
PoppedInLayerOrder ==
    \A i \in 1..(Len(popped) - 1) :
        Manhattan(start, popped[i]) <= Manhattan(start, popped[i + 1])

\* C12 as stated: in the scenario, after four calls of step() the cells were
\* visited in layer order, (2,2) has been visited, and Visited holds all nine
\* cells.
C12_FourStepsVisitAll ==
    (Scenario /\ Len(popped) = 4)
    => /\ PoppedInLayerOrder
       /\ <<2, 2>> \in DOMAIN visited
       /\ DOMAIN visited = Cells

\* C12 amended: in the scenario the cells are dequeued in layer order, (0,0)
\* first and then (1,0) before (0,1); after four steps Visited holds seven
\* cells, (1,2) and (2,2) not among them; (2,2) is the last cell to enter
\* Visited and the last to be dequeued; Frontier is empty after exactly nine
\* steps, and then Visited holds all nine cells.
C12_NineStepsVisitAll ==
    Scenario
    => /\ PoppedInLayerOrder
       /\ \A i, j \in 1..Len(popped) : i < j => popped[i] # popped[j]
       /\ Len(popped) >= 1 => popped[1] = <<0, 0>>
       /\ Len(popped) >= 3 => popped[2] = <<1, 0>> /\ popped[3] = <<0, 1>>
       /\ Len(popped) = 4
          => DOMAIN visited = Cells \ {<<1, 2>>, <<2, 2>>}
       /\ <<2, 2>> \in DOMAIN visited => DOMAIN visited = Cells
       /\ queue = <<>> <=> Len(popped) = 9
       /\ Len(popped) = 9
          => /\ popped[9] = <<2, 2>>
             /\ DOMAIN visited = Cells

\* C12 witness: the scenario's traversal has run to its end.
C12_Witness ==
    /\ Scenario
    /\ queue = <<>>
    /\ Len(popped) = 9
    /\ cur_node = <<2, 2>>

\* A free cell none of whose orthogonal neighbours is a free cell.
Enclosed(c) == c \in FreeCells /\ \A n \in FreeCells : ~Adjacent(c, n)

\* C13: incremental mode, a traversal started at an enclosed free cell.  The
\* reset leaves Frontier = [start] and Visited = {start: none}; once a step has
\* run, Frontier is empty, Visited is {start: none} and start is the only cell
\* ever dequeued, however many steps follow.
C13_EnclosedStart ==
    (app \in IncApps /\ started /\ Enclosed(start))
    => /\ visited = (start :> None)
       /\ cur_node = start
       /\ IF popped = <<>>
          THEN queue = <<start>>
          ELSE queue = <<>> /\ popped = <<start>>

\* C13 witness: the step after the reset has run at a start walled in on some
\* side while another free cell lies beyond the walls.
C13_Witness ==
    /\ app \in IncApps /\ started /\ Enclosed(start)
    /\ pc = "frame"
    /\ popped = <<start>>
    /\ queue = <<>>
    /\ \E w \in Cells \ FreeCells : Adjacent(start, w)
    /\ FreeCells # {start}

\* C14 as stated: in every reachable state of both modes the path
\* reconstructed for the start cell is the one-element sequence [start]
\* (stated here for a start that is a free cell of the grid).
C14_PathOfStartAlways ==
    start \in FreeCells => path_walk(visited, start) = <<start>>

\* Visited is the result of a traversal from the current start: always in
\* incremental mode, and in run-to-completion mode until a click changes
\* Start, which Visited follows only in the next frame's solve.
VisitedIsOfStart == app \in IncApps \/ pc \in {"init", "frame"}

\* C14 amended: whenever Visited belongs to the current start (every state of
\* incremental mode; in run-to-completion mode from the return of solve until
\* Start is changed), the path reconstructed for the start cell is the
\* one-element sequence [start].
C14_PathOfStart ==
    VisitedIsOfStart => path_walk(visited, start) = <<start>>

\* C14 witness: a traversal that has visited other cells as well, in a state
\* where the start is also the target whose path the program draws.
C14_Witness ==
    /\ pc = "frame"
    /\ Target = start
    /\ start \in FreeCells
    /\ Cardinality(DOMAIN visited) > 2
    /\ path = <<start>>

\* No cell occurs twice in the sequence s.
NoRepeat(s) == \A i, j \in 1..Len(s) : i < j => s[i] # s[j]

\* C15: run-to-completion mode.  Every call of solve ends, and the cells it
\* popped from Frontier (popped holds them on its return) are at most
\* columns x rows, none of them popped twice.  The same holds of bfs of
\* BFS.py called for the same start and goal, also when it ends on a cell
\* that has no adjacency list.
C15_SolveBounded ==
    app \in PathApps
    => /\ Len(popped) <= columns * rows
       /\ NoRepeat(popped)
       /\ LET r == old_bfs(start, goal)
          IN  /\ Len(r.popped) <= columns * rows
              /\ NoRepeat(r.popped)

\* C15 witness: a solve that popped every cell of a grid of four or more
\* cells without finding the goal.
C15_Witness ==
    /\ app \in PathApps
    /\ pc = "frame"
    /\ columns * rows >= 4
    /\ Len(popped) = columns * rows
    /\ goal \notin DOMAIN visited

\* A tick of incremental mode: one frame of whichever program runs.
Tick == Vis_Frame \/ OldVis_Frame

\* C16 as stated: ticks keep occurring (the fairness of the loop); if the
\* running flag is not left false forever (again and again it is set), then
\* once a start has been accepted Frontier eventually is empty for good, and
\* from some point on Frontier, Visited and CurrentHead never change.
C16_CompletesUnlessLeftPaused ==
    ([]<>running)
    => (<>started
        => /\ <>[](queue = <<>>)
           /\ <>[][UNCHANGED <<queue, visited, cur_node>>]_vars)

\* C16 amended: what counts is the value of the running flag when a tick
\* reads it.  If at infinitely many ticks the flag is set, then once a start
\* has been accepted Frontier eventually is empty for good, and from some
\* point on Frontier, Visited and CurrentHead never change.  A flag that is
\* set and cleared again between two ticks lets no step run.
C16_TraversalCompletes ==
    ([]<><<Tick /\ running>>_vars)
    => (<>started
        => /\ <>[](queue = <<>>)
           /\ <>[][UNCHANGED <<queue, visited, cur_node>>]_vars)

\* C16 witness: a traversal over four or more cells has emptied Frontier and
\* the user has paused it afterwards.
C16_Witness ==
    /\ app \in IncApps
    /\ started
    /\ queue = <<>>
    /\ ~running
    /\ Len(popped) >= 4
    /\ Cardinality(DOMAIN visited) = Len(popped)

\* C17: in every reachable state of both modes, the initial state included,
\* every key of Visited and every element of Frontier is a key of the
\* Adjacency Index, that is a free cell inside the grid.
C17_OnlyFreeCells ==
    /\ DOMAIN graph = FreeCells
    /\ DOMAIN visited \subseteq DOMAIN graph
    /\ Range(queue) \subseteq DOMAIN graph

\* Frontier is a FIFO: the cells appended to it since the last reset, in the
\* order of their appending, are those already dequeued followed by those
\* still waiting.
Enqueued == popped \o queue

\* C18: within one traversal no cell is appended to Frontier twice; so
\* Frontier never holds a cell twice, holds no cell already dequeued, and
\* every cell in Frontier is a key of Visited.
C18_EnqueuedAtMostOnce ==
    /\ NoRepeat(Enqueued)
    /\ NoRepeat(queue)
    /\ Range(queue) \cap Range(popped) = {}
    /\ Range(queue) \subseteq DOMAIN visited

\* C18 witness: a cell waits in Frontier, appended once, although two of its
\* neighbours have been dequeued and expanded.
C18_Witness ==
    /\ pc = "frame"
    /\ \E c \in Range(queue) :
           /\ Cardinality({u \in Range(popped) : Adjacent(u, c)}) >= 2
           /\ c \in DOMAIN visited

\* C19: incremental mode, in every state in which the loop runs.  Every key
\* of Visited has been dequeued or waits in Frontier; start is a key and the
\* only one whose parent is none; the parent of every other key is a key of
\* Visited, has been dequeued, and lists the key among its neighbours in the
\* Adjacency Index; and the parent pointers lead from every key to start in
\* fewer steps than Visited has keys, so without meeting a cell twice.
C19_VisitedIsTree ==
    (app \in IncApps /\ pc \in Looping)
    => /\ DOMAIN visited = Range(popped) \cup Range(queue)
       /\ start \in DOMAIN visited
       /\ visited[start] = None
       /\ \A c \in DOMAIN visited \ {start} :
              /\ visited[c] # None
              /\ visited[c] \in DOMAIN visited
              /\ visited[c] \in Range(popped)
              /\ visited[c] \in DOMAIN graph
              /\ c \in Range(graph[visited[c]])
       /\ \A c \in DOMAIN visited :
              \E n \in 0..(Cardinality(DOMAIN visited) - 1) :
                  Ancestor(visited, c, n) = start

\* C19 witness: a traversal under way, with dequeued and waiting keys and a
\* key two parent pointers away from start.
C19_Witness ==
    /\ app \in IncApps /\ pc \in Looping /\ started
    /\ queue # <<>>
    /\ Len(popped) >= 2
    /\ \E c \in DOMAIN visited :
           /\ visited[c] # None
           /\ visited[c] # start
           /\ Ancestor(visited, c, 2) = start

\* The neighbours the Adjacency Index lists for cell c, none for a cell that
\* is no key of it; and those of them that are no keys of Visited yet.
Neighbours(c) == IF c \in DOMAIN graph THEN graph[c] ELSE <<>>

Unvisited(c) == SelectSeq(Neighbours(c), LAMBDA n : n \notin DOMAIN visited)

\* C20: incremental mode, the effect of a tick on the traversal.  With
\* Frontier empty, Frontier, Visited and CurrentHead stay as they are.  With
\* Frontier non-empty, a started and running traversal takes one step: the
\* front cell leaves Frontier and becomes CurrentHead, its neighbours that are
\* no keys of Visited are appended to Frontier in the order of the Adjacency
\* Index and become keys of Visited with CurrentHead as parent, no other key
\* is added and no entry of Visited is changed.
C20_StepEffect ==
    [][Tick
       => IF queue = <<>>
          THEN UNCHANGED <<queue, visited, cur_node>>
          ELSE (started /\ running)
               => LET h == Head(queue)
                      new == Unvisited(h)
                  IN  /\ cur_node' = h
                      /\ queue' = Tail(queue) \o new
                      /\ DOMAIN visited' = DOMAIN visited \cup Range(new)
                      /\ \A c \in DOMAIN visited : visited'[c] = visited[c]
                      /\ \A c \in Range(new) : visited'[c] = h
      ]_vars

\* C20 witness: a step has just dequeued a cell other than start, appended a
\* neighbour of it and passed over a neighbour that was a key already.
C20_Witness ==
    /\ app \in IncApps /\ pc = "frame" /\ started
    /\ Len(popped) >= 2
    /\ cur_node = popped[Len(popped)]
    /\ queue # <<>>
    /\ visited[queue[Len(queue)]] = cur_node
    /\ \E n \in Range(Neighbours(cur_node)) : visited[n] # cur_node

\* n steps of a traversal taken one after the other: each dequeues the front
\* cell h and appends the neighbours of h that are no keys of Visited yet.
RECURSIVE Steps(_, _, _, _)
Steps(q, v, cur, n) ==
    IF n = 0
    THEN [queue |-> q, visited |-> v, cur_node |-> cur]
    ELSE LET h == Head(q)
             new == SelectSeq(Neighbours(h), LAMBDA c : c \notin DOMAIN v)
         IN  Steps(Tail(q) \o new,
                   [c \in DOMAIN v \cup Range(new) |->
                       IF c \in DOMAIN v THEN v[c] ELSE h],
                   h, n - 1)

\* The traversal from s after n steps taken without a pause: Frontier,
\* Visited and CurrentHead.
Unpaused(s, n) == Steps(<<s>>, (s :> None), s, n)

\* C21: incremental mode.  While the running flag is false no step of the
\* program, a tick least of all, changes Frontier, Visited or CurrentHead; nor
\* does any before a start has been accepted, but the click that is accepted.
\* A step that changes the running flag belongs to a started traversal and
\* changes none of the three.  So in every state of a started traversal,
\* paused and resumed however often, Frontier, Visited and CurrentHead are
\* those of the unpaused run after as many steps as cells have been dequeued,
\* and at completion Visited is the final Visited of the unpaused run.
C21_PauseResume ==
    [][(app \in IncApps)
       => /\ ~running => UNCHANGED <<queue, visited, cur_node>>
          /\ ~(started \/ started') => UNCHANGED <<queue, visited, cur_node>>
          /\ running' # running
             => /\ started
                /\ UNCHANGED <<queue, visited, cur_node, start, popped>>
          /\ (started' /\ pc' \in Looping)
             => LET u == Unpaused(start', Len(popped'))
                IN  /\ queue' = u.queue
                    /\ visited' = u.visited
                    /\ cur_node' = u.cur_node
      ]_vars

\* C21 witness: a traversal paused part-way, a tick taken during the pause.
C21_Witness ==
    /\ app \in IncApps /\ started /\ ~running
    /\ pc = "frame"
    /\ Len(popped) >= 2
    /\ Len(queue) >= 2

\* C22: incremental mode, in every reachable state: CurrentHead is a key of
\* Visited, the parent pointers lead from it to start, whose parent is none,
\* and the walk of BFS.py, which reads Visited without a membership test,
\* meets no missing key: it succeeds from CurrentHead and no frame has ended
\* on a failed lookup in Visited.
C22_CurrentHeadIsKey ==
    app \in IncApps
    => /\ cur_node \in DOMAIN visited
       /\ start \in DOMAIN visited
       /\ visited[start] = None
       /\ \E n \in 0..(Cardinality(DOMAIN visited) - 1) :
              Ancestor(visited, cur_node, n) = start
       /\ old_path_walk(visited, cur_node).ok
       /\ pc # "KeyError_visited"

\* C22 witness: BFS.py has drawn, without a membership test, a path of three
\* or more cells from CurrentHead back to start.
C22_Witness ==
    /\ app = "oldvis"
    /\ pc = "frame"
    /\ started
    /\ Len(path) >= 3
    /\ path[1] = cur_node
    /\ path[Len(path)] = start

====
